---- MODULE Spec2Model ----
(***************************************************************************)
(* Jamlie/set: the unordered Set (package set), the OrderedSet (package    *)
(* orderedset), the iterator cursors (setIter, concurrentSetIter) and the  *)
(* guard of the ConcurrentSet.                                             *)
(*                                                                         *)
(* A Go map[T]struct{} is modelled by the set of its keys, a Go slice []T  *)
(* by a sequence.  Elements are the integers 0..MaxElem; 0 is Go's zero    *)
(* value of the element type, which the builtin clear() writes into every  *)
(* slot of a slice.                                                        *)
(***************************************************************************)
EXTENDS Integers, Sequences, FiniteSets, TLC

\* ------------------------------------------------------------------ bounds
MaxElem == 2          \* elements are 0..MaxElem
MaxLen == 3           \* longest items slice of the OrderedSet that is explored
MaxSeq == 2           \* longest iter.Seq / slice handed to a bulk operation
MaxLog == 3           \* longest recorded run of Insert calls
MaxSteps == 2         \* most Map/Filter steps of one cursor chain
MaxCalls == 3         \* most calls made on a set, its clone and its Keys() slice

ZeroValue == 0        \* the zero value of T (T = int), written by clear(s.items)

Elems == 0..MaxElem

RECURSIVE SeqsUpTo(_)
SeqsUpTo(n) ==
    IF n = 0 THEN {<<>>}
    ELSE LET shorter == SeqsUpTo(n - 1)
         IN  shorter \cup {Append(q, e) : q \in {r \in shorter : Len(r) = n - 1}, e \in Elems}

\* the values an iter.Seq[T] or a []T argument may yield, duplicates included
InputSeqs == SeqsUpTo(MaxSeq)

Range(q) == {q[i] : i \in 1..Len(q)}

VARIABLES
    kind,       \* which package the program under test instantiates
    set,        \* Set.set: the keys of the map of the unordered Set
    items,      \* OrderedSet.items
    oset,       \* OrderedSet.set: the keys of the map of the OrderedSet
    lastOp,     \* the call that produced this state: [op, arg, hit]
    insLog,     \* the arguments of the Insert calls since New(), while insOnly
    insOnly,    \* TRUE while only Insert has been called since New()
    panicked    \* TRUE when the call that produced this state panicked

crudVars == <<kind, set, items, oset, lastOp, insLog, insOnly, panicked>>

\* the cursor chain of package set (setIter)
VARIABLES
    variant,    \* which setIter of iter.go: "return" (Collect returns a set) or "commit"
    store,      \* the heap of Set objects: store[o] is the keys of the map o.set
    nobj,       \* the number of Set objects allocated so far
    user,       \* the Set the program's variable refers to
    cur,        \* the cursor the chain holds: [set, internalSet]
    origin,     \* the Set that Iter() was called on
    originAt,   \* what that Set held when Iter() was called
    step,       \* the pipeline call that produced this state: [op, fn, pred]
    phase,      \* "idle" (no cursor), "chaining", "terminated", "failed" (a callback
                \* panicked), "reused" (a call was made on the terminated cursor)
    ended,      \* how the call that produced this state ended: "ok" or "panic"
    reuse,      \* TRUE when that call was made on a cursor after its Collect or ForEach
    collected,  \* TRUE once the program's variable holds the set a Collect returned
    nsteps      \* the Map/Filter steps made on the chain

pipeVars == <<variant, store, nobj, user, cur, origin, originAt, step, phase,
              ended, reuse, collected, nsteps>>

\* the cursor of package concurrentset (concurrentSetIter) and its threads
VARIABLES
    cstore,     \* cstore[o]: the keys of the map o.set of ConcurrentSet o
    readers,    \* readers[o]: the threads that hold o.mu in shared mode (RLock)
    writer,     \* writer[o]: the thread that holds o.mu in exclusive mode, or NoThread
    cinit,      \* what the shared set held before any thread ran
    iters,      \* iters[t]: the cursor it of thread t: [set, internalSet]
    pc,         \* pc[t]: where thread t is in its call
    call,       \* call[t]: the call thread t makes: [op, fn, pred, key]
    built,      \* built[t]: the map newSet.set the call of thread t builds (Collect: has loaded)
    held,       \* held[t]: the mutex the deferred RUnlock of thread t releases
    wr          \* the last write of a backing store: [thread, kind, mode]

concVars == <<cstore, readers, writer, cinit, iters, pc, call, built, held, wr>>

\* chains of steps on the cursors of both versions of concurrentSetIter
VARIABLES
    cvariant,   \* which concurrentSetIter: "commit" (Collect assigns) or "return" (Collect returns the set)
    inner,      \* inner[t]: TRUE when the callback of the step of thread t has called Insert
    outcome,    \* outcome[t]: "panic" when the callback of the step of thread t panicked
    again       \* again[t]: TRUE when thread t has gone on to its second call

guardVars == <<cvariant, inner, outcome, again>>

\* a set, its clone and the slice its Keys() returned, as Go references
VARIABLES
    rkind,      \* which package the program instantiates
    maps,       \* the heap of Go maps: maps[m] is the keys of map m
    arrs,       \* the heap of backing arrays of slices: arrs[a] has cap entries
    source,     \* the set of the program: [items, set], a slice and a map
    clone,      \* the set source.Clone() returned, or NoObject
    keys,       \* the slice source.Keys() returned
    gotKeys,    \* TRUE once Keys() has returned
    keysAt,     \* what the returned slice held when Keys() returned or the program last wrote to it
    rlast,      \* the call that produced this state: [op, on, arg]
    rcalls      \* the number of calls made

refVars == <<rkind, maps, arrs, source, clone, keys, gotKeys, keysAt, rlast, rcalls>>

CrudOnly == UNCHANGED <<pipeVars, concVars, guardVars, refVars>>
PipeOnly == UNCHANGED <<crudVars, concVars, guardVars, refVars>>
ConcOnly == UNCHANGED <<crudVars, pipeVars, guardVars, refVars>>
GuardOnly == UNCHANGED <<crudVars, pipeVars, refVars>>
RefOnly == UNCHANGED <<crudVars, pipeVars, concVars, guardVars>>

\* ------------------------------------------------ package set: type Set[T]

\* func New[T]() *Set[T]
Set_New == {}

\* a faulty WithCapacity: a negative capacity is taken as no capacity
Set_WithCapacity_Panics_Never(capacity) == FALSE

\* func WithCapacity[T](capacity int) *Set[T]: whether the call panics with
\* "Cannot allocate with a negative capacity"
Set_WithCapacity_Panics(capacity) == capacity < 0

\* func WithCapacity[T](capacity int) *Set[T]   (capacity >= 0)
Set_WithCapacity(capacity) == IF capacity = 0 THEN Set_New ELSE {}

\* a faulty Set.Insert: the key is dropped when the map is not empty
Set_Insert_Drop(s, k) == IF s = {} THEN {k} ELSE s

\* func (s *Set[T]) Insert(k T):  s.set[k] = struct{}{}
Set_Insert(s, k) == s \cup {k}

\* a faulty Set.Delete: the whole map is emptied
Set_Delete_All(s, k) == IF k \in s THEN {} ELSE s

\* func (s *Set[T]) Delete(k T):  delete(s.set, k)
Set_Delete(s, k) == s \ {k}

\* func (s *Set[T]) Len() int
Set_Len(s) == Cardinality(s)

\* func (s *Set[T]) Contains(k T) bool
Set_Contains(s, k) == k \in s

\* func (s *Set[T]) Empty() bool
Set_Empty(s) == Set_Len(s) = 0

\* func (s *Set[T]) Clone() *Set[T]:  maps.Clone(s.set)
Set_Clone(s) == {k \in Elems : k \in s}

\* func (s *Set[T]) Clear():  clear(s.set)
Set_Clear(s) == s \ s

\* func (s *Set[T]) Keys() []T: the keys in the order the map range yields
\* them, which Go leaves unspecified: any enumeration without repetition
Set_Keys(s) ==
    {q \in [1..Cardinality(s) -> s] : \A i, j \in 1..Cardinality(s) : q[i] = q[j] => i = j}

\* func (s *Set[T]) All() iter.Seq[T]: the sequences the range over the map may
\* yield, every key once in some order
Set_All(s) == Set_Keys(s)

\* func (s *Set[T]) InsertSeq(seq iter.Seq[T])
RECURSIVE Set_InsertSeq(_, _)
Set_InsertSeq(s, seq) ==
    IF seq = <<>> THEN s
    ELSE Set_InsertSeq(s \cup {Head(seq)}, Tail(seq))

\* func (s *Set[T]) Collect(seq iter.Seq[T])
Set_Collect(s, seq) ==
    LET newSet == Set_InsertSeq(Set_WithCapacity(Set_Len(s)), seq)
    IN  newSet

\* func FromSlice(v Slice) *Set[T]
RECURSIVE Set_FromSliceLoop(_, _)
Set_FromSliceLoop(s, v) ==
    IF v = <<>> THEN s
    ELSE Set_FromSliceLoop(Set_Insert(s, Head(v)), Tail(v))

Set_FromSlice(v) == Set_FromSliceLoop(Set_WithCapacity(Len(v)), v)

\* ------------------------------------ package orderedset: type OrderedSet[T]
\* An OrderedSet value is the record [items |-> sequence, set |-> keys].

\* func New[T]() *OrderedSet[T]
OrderedSet_New == [items |-> <<>>, set |-> {}]

\* func WithCapacity[T](capacity int) *OrderedSet[T]: whether the call panics
OrderedSet_WithCapacity_Panics(capacity) == capacity < 0

\* func WithCapacity[T](capacity int) *OrderedSet[T]   (capacity >= 0)
OrderedSet_WithCapacity(capacity) ==
    IF capacity = 0 THEN OrderedSet_New ELSE [set |-> {}, items |-> <<>>]

\* a faulty OrderedSet.Insert: the membership test is missing
OrderedSet_Insert_NoTest(s, k) ==
    [items |-> Append(s.items, k), set |-> s.set \cup {k}]

\* func (s *OrderedSet[T]) Insert(k T)
OrderedSet_Insert(s, k) ==
    IF k \notin s.set
    THEN [items |-> Append(s.items, k), set |-> s.set \cup {k}]
    ELSE s

\* the index at which the range loop of Delete breaks: the first i with
\* s.items[i] = k, or 0 when the loop runs to its end
FirstIndex(q, k) ==
    IF \E i \in 1..Len(q) : q[i] = k
    THEN CHOOSE i \in 1..Len(q) : q[i] = k /\ \A j \in 1..(i - 1) : q[j] # k
    ELSE 0

\* append(s.items[:i], s.items[i+1:]...), with i counted from 1
Splice(q, i) == SubSeq(q, 1, i - 1) \o SubSeq(q, i + 1, Len(q))

\* a faulty OrderedSet.Delete: the key leaves the map, the slice keeps it
OrderedSet_Delete_MapOnly(s, k) == [items |-> s.items, set |-> s.set \ {k}]

\* func (s *OrderedSet[T]) Delete(k T)
OrderedSet_Delete(s, k) ==
    IF k \in s.set
    THEN LET i == FirstIndex(s.items, k)
         IN  [items |-> IF i = 0 THEN s.items ELSE Splice(s.items, i),
              set   |-> s.set \ {k}]
    ELSE s

\* func (s *OrderedSet[T]) Len() int:  len(s.items)
OrderedSet_Len(s) == Len(s.items)

\* func (s *OrderedSet[T]) Contains(k T) bool
OrderedSet_Contains(s, k) == k \in s.set

\* func (s *OrderedSet[T]) Empty() bool:  len(s.items) == 0
OrderedSet_Empty(s) == Len(s.items) = 0

\* func (s *OrderedSet[T]) Keys() []T:  return s.items
OrderedSet_Keys(s) == s.items

\* func (s *OrderedSet[T]) All() iter.Seq[T]: yields the entries of items in order
OrderedSet_All(s) == s.items

\* func (s *OrderedSet[T]) Clone() *OrderedSet[T]
RECURSIVE OrderedSet_InsertEach(_, _)
OrderedSet_InsertEach(s, v) ==
    IF v = <<>> THEN s
    ELSE OrderedSet_InsertEach(OrderedSet_Insert(s, Head(v)), Tail(v))

OrderedSet_Clone(s) == OrderedSet_InsertEach(OrderedSet_New, s.items)

\* func (s *OrderedSet[T]) Clear():  clear(s.items); clear(s.set)
\* clear of a slice sets every element to the zero value and keeps the length
OrderedSet_Clear(s) ==
    [items |-> [i \in 1..Len(s.items) |-> ZeroValue], set |-> {}]

\* func (s *OrderedSet[T]) InsertSeq(seq iter.Seq[T])
RECURSIVE OrderedSet_InsertSeq(_, _)
OrderedSet_InsertSeq(s, seq) ==
    IF seq = <<>> THEN s
    ELSE OrderedSet_InsertSeq(
             [items |-> Append(s.items, Head(seq)), set |-> s.set \cup {Head(seq)}],
             Tail(seq))

\* func (s *OrderedSet[T]) Collect(seq iter.Seq[T])
OrderedSet_Collect(s, seq) ==
    LET newSet == OrderedSet_InsertSeq(OrderedSet_WithCapacity(OrderedSet_Len(s)), seq)
    IN  [set |-> newSet.set, items |-> newSet.items]

\* func FromSlice(v Slice) *OrderedSet[T]
OrderedSet_FromSlice(v) == OrderedSet_InsertEach(OrderedSet_WithCapacity(Len(v)), v)

\* ------------------------------------------------- the program under test
\* The program holds one set, of the package it instantiates, and calls its
\* methods in any order with any arguments.

ordered == [items |-> items, set |-> oset]

\* what the calls Len(), Contains(k), Empty() and Keys() return in this state
LenNow == IF kind = "Set" THEN Set_Len(set) ELSE OrderedSet_Len(ordered)
ContainsNow(k) == IF kind = "Set" THEN Set_Contains(set, k) ELSE OrderedSet_Contains(ordered, k)
EmptyNow == IF kind = "Set" THEN Set_Empty(set) ELSE OrderedSet_Empty(ordered)

\* hit: whether the element argument was in the set when the call was made
Op(name, arg, hit) == [op |-> name, arg |-> arg, hit |-> hit]

\* the record of Insert calls: kept while only Insert is called, up to MaxLog
LogInsert(k) ==
    /\ panicked' = FALSE
    /\ IF insOnly /\ Len(insLog) < MaxLog
       THEN insLog' = Append(insLog, k) /\ insOnly' = TRUE
       ELSE insLog' = <<>> /\ insOnly' = FALSE

LogOther == insLog' = <<>> /\ insOnly' = FALSE /\ panicked' = FALSE

InitCrud ==
    /\ kind \in {"Set", "OrderedSet"}
    /\ set = Set_New
    /\ items = OrderedSet_New.items
    /\ oset = OrderedSet_New.set
    /\ lastOp = Op("New", <<>>, FALSE)
    /\ insLog = <<>>
    /\ insOnly = TRUE
    /\ panicked = FALSE

\* s = set.New() / orderedset.New(): the program starts over with a new set
CallNew ==
    /\ CrudOnly
    /\ lastOp.op # "New"
    /\ set' = Set_New
    /\ items' = OrderedSet_New.items
    /\ oset' = OrderedSet_New.set
    /\ lastOp' = Op("New", <<>>, FALSE)
    /\ insLog' = <<>> /\ insOnly' = TRUE
    /\ panicked' = FALSE
    /\ UNCHANGED kind

\* the capacities the program asks for
Capacities == (0 - MaxSeq)..MaxSeq

\* s = set.WithCapacity(n): a panic unwinds before s is assigned
CallSetWithCapacity(n) ==
    /\ CrudOnly
    /\ kind = "Set"
    /\ IF Set_WithCapacity_Panics(n)
       THEN panicked' = TRUE /\ set' = set
       ELSE panicked' = FALSE /\ set' = Set_WithCapacity(n)
    /\ lastOp' = Op("WithCapacity", <<n>>, FALSE)
    /\ insLog' = <<>> /\ insOnly' = FALSE
    /\ UNCHANGED <<kind, items, oset>>

\* s = orderedset.WithCapacity(n)
CallOrderedWithCapacity(n) ==
    /\ CrudOnly
    /\ kind = "OrderedSet"
    /\ IF OrderedSet_WithCapacity_Panics(n)
       THEN panicked' = TRUE /\ items' = items /\ oset' = oset
       ELSE /\ panicked' = FALSE
            /\ items' = OrderedSet_WithCapacity(n).items
            /\ oset' = OrderedSet_WithCapacity(n).set
    /\ lastOp' = Op("WithCapacity", <<n>>, FALSE)
    /\ insLog' = <<>> /\ insOnly' = FALSE
    /\ UNCHANGED <<kind, set>>

CallSetInsert(k) ==
    /\ CrudOnly
    /\ kind = "Set"
    /\ set' = Set_Insert(set, k)
    /\ lastOp' = Op("Insert", <<k>>, ContainsNow(k))
    /\ LogInsert(k)
    /\ UNCHANGED <<kind, items, oset>>

CallSetDelete(k) ==
    /\ CrudOnly
    /\ kind = "Set"
    /\ set' = Set_Delete(set, k)
    /\ lastOp' = Op("Delete", <<k>>, ContainsNow(k))
    /\ LogOther
    /\ UNCHANGED <<kind, items, oset>>

CallSetClear ==
    /\ CrudOnly
    /\ kind = "Set"
    /\ set' = Set_Clear(set)
    /\ lastOp' = Op("Clear", <<>>, FALSE)
    /\ LogOther
    /\ UNCHANGED <<kind, items, oset>>

\* s = s.Clone(): the program goes on with the clone
CallSetClone ==
    /\ CrudOnly
    /\ kind = "Set"
    /\ set' = Set_Clone(set)
    /\ lastOp' = Op("Clone", <<>>, FALSE)
    /\ LogOther
    /\ UNCHANGED <<kind, items, oset>>

CallSetInsertSeq(seq) ==
    /\ CrudOnly
    /\ kind = "Set"
    /\ set' = Set_InsertSeq(set, seq)
    /\ lastOp' = Op("InsertSeq", seq, FALSE)
    /\ LogOther
    /\ UNCHANGED <<kind, items, oset>>

CallSetCollect(seq) ==
    /\ CrudOnly
    /\ kind = "Set"
    /\ set' = Set_Collect(set, seq)
    /\ lastOp' = Op("Collect", seq, FALSE)
    /\ LogOther
    /\ UNCHANGED <<kind, items, oset>>

\* s = set.FromSlice(v)
\* s.Collect(s.All()): the sequence is read from s while the new map is built
CallSetCollectAll ==
    /\ CrudOnly
    /\ kind = "Set"
    /\ \E seq \in Set_All(set) :
           /\ set' = Set_Collect(set, seq)
           /\ lastOp' = Op("CollectAll", seq, FALSE)
    /\ LogOther
    /\ UNCHANGED <<kind, items, oset>>

CallSetFromSlice(v) ==
    /\ CrudOnly
    /\ kind = "Set"
    /\ set' = Set_FromSlice(v)
    /\ lastOp' = Op("FromSlice", v, FALSE)
    /\ LogOther
    /\ UNCHANGED <<kind, items, oset>>

\* the OrderedSet the call leaves behind; a slice longer than MaxLen is not explored
OrderedBecomes(s) ==
    /\ Len(s.items) <= MaxLen
    /\ items' = s.items
    /\ oset' = s.set

CallOrderedInsert(k) ==
    /\ CrudOnly
    /\ kind = "OrderedSet"
    /\ OrderedBecomes(OrderedSet_Insert(ordered, k))
    /\ lastOp' = Op("Insert", <<k>>, ContainsNow(k))
    /\ LogInsert(k)
    /\ UNCHANGED <<kind, set>>

CallOrderedDelete(k) ==
    /\ CrudOnly
    /\ kind = "OrderedSet"
    /\ OrderedBecomes(OrderedSet_Delete(ordered, k))
    /\ lastOp' = Op("Delete", <<k>>, ContainsNow(k))
    /\ LogOther
    /\ UNCHANGED <<kind, set>>

CallOrderedClear ==
    /\ CrudOnly
    /\ kind = "OrderedSet"
    /\ OrderedBecomes(OrderedSet_Clear(ordered))
    /\ lastOp' = Op("Clear", <<>>, FALSE)
    /\ LogOther
    /\ UNCHANGED <<kind, set>>

\* s = s.Clone(): the program goes on with the clone
CallOrderedClone ==
    /\ CrudOnly
    /\ kind = "OrderedSet"
    /\ OrderedBecomes(OrderedSet_Clone(ordered))
    /\ lastOp' = Op("Clone", <<>>, FALSE)
    /\ LogOther
    /\ UNCHANGED <<kind, set>>

CallOrderedInsertSeq(seq) ==
    /\ CrudOnly
    /\ kind = "OrderedSet"
    /\ OrderedBecomes(OrderedSet_InsertSeq(ordered, seq))
    /\ lastOp' = Op("InsertSeq", seq, FALSE)
    /\ LogOther
    /\ UNCHANGED <<kind, set>>

CallOrderedCollect(seq) ==
    /\ CrudOnly
    /\ kind = "OrderedSet"
    /\ OrderedBecomes(OrderedSet_Collect(ordered, seq))
    /\ lastOp' = Op("Collect", seq, FALSE)
    /\ LogOther
    /\ UNCHANGED <<kind, set>>

\* s = orderedset.FromSlice(v)
\* s.Collect(s.All())
CallOrderedCollectAll ==
    /\ CrudOnly
    /\ kind = "OrderedSet"
    /\ OrderedBecomes(OrderedSet_Collect(ordered, OrderedSet_All(ordered)))
    /\ lastOp' = Op("CollectAll", OrderedSet_All(ordered), FALSE)
    /\ LogOther
    /\ UNCHANGED <<kind, set>>

CallOrderedFromSlice(v) ==
    /\ CrudOnly
    /\ kind = "OrderedSet"
    /\ OrderedBecomes(OrderedSet_FromSlice(v))
    /\ lastOp' = Op("FromSlice", v, FALSE)
    /\ LogOther
    /\ UNCHANGED <<kind, set>>

NextCrud ==
    \/ CallNew
    \/ \E k \in Elems : CallSetInsert(k)
    \/ \E k \in Elems : CallSetDelete(k)
    \/ CallSetClear
    \/ CallSetClone
    \/ \E seq \in InputSeqs : CallSetInsertSeq(seq)
    \/ \E seq \in InputSeqs : CallSetCollect(seq)
    \/ \E v \in InputSeqs : CallSetFromSlice(v)
    \/ \E k \in Elems : CallOrderedInsert(k)
    \/ \E k \in Elems : CallOrderedDelete(k)
    \/ CallOrderedClear
    \/ CallOrderedClone
    \/ \E seq \in InputSeqs : CallOrderedInsertSeq(seq)
    \/ \E seq \in InputSeqs : CallOrderedCollect(seq)
    \/ \E v \in InputSeqs : CallOrderedFromSlice(v)
    \/ CallSetCollectAll
    \/ CallOrderedCollectAll
    \/ \E n \in Capacities : CallSetWithCapacity(n)
    \/ \E n \in Capacities : CallOrderedWithCapacity(n)

\* ------------------------------------------- package set: the cursor setIter

Nil == 0                       \* the nil pointer; Set objects are 1, 2, ...
Objs == 1..(MaxSteps + 1)

\* the callbacks a caller hands to Map (internal.MapIterFn)
Ident == [e \in Elems |-> e]
Double == [e \in Elems |-> (e * 2) % (MaxElem + 1)]
Half == [e \in Elems |-> e \div 2]
ToZero == [e \in Elems |-> ZeroValue]
MapFns == {Ident, Double, Half, ToZero}

\* the callbacks a caller hands to Filter (internal.FilterIterFn)
IsOdd == [e \in Elems |-> e % 2 = 1]
Always == [e \in Elems |-> TRUE]
Never == [e \in Elems |-> FALSE]
FilterFns == {IsOdd, Always, Never}

\* func (s *Set[T]) Iter() *setIter[T]:  &setIter[T]{internalSet: s}
Set_Iter(s) == [set |-> Nil, internalSet |-> s]

\* Iter() of the version whose setIter has the fields set and internalSet;
\* both refer to the receiver (a cursor that mutates the set it was derived
\* from, as the design notes describe it)
SetCommit_Iter(s) == [set |-> s, internalSet |-> Set_Iter(s).internalSet]

NoCursor == [set |-> Nil, internalSet |-> Nil]

\* a faulty loop of Map: the key itself is stored, not fn(k)
RECURSIVE setIter_MapLoop_KeepKey(_, _, _)
setIter_MapLoop_KeepKey(src, fn, newSet) ==
    IF src = {} THEN newSet
    ELSE LET k == CHOOSE x \in src : TRUE
         IN  setIter_MapLoop_KeepKey(src \ {k}, fn, newSet \cup {k})

\* for k := range it.internalSet.set { newKey := fn(k); newSet.set[newKey] = struct{}{} }
\* (the order of the range is unspecified and the result does not depend on it)
RECURSIVE setIter_MapLoop(_, _, _)
setIter_MapLoop(src, fn, newSet) ==
    IF src = {} THEN newSet
    ELSE LET k == CHOOSE x \in src : TRUE
             newKey == fn[k]
         IN  setIter_MapLoop(src \ {k}, fn, newSet \cup {newKey})

\* a faulty loop of Filter: the test is inverted
RECURSIVE setIter_FilterLoop_Inverted(_, _, _)
setIter_FilterLoop_Inverted(src, fn, newSet) ==
    IF src = {} THEN newSet
    ELSE LET k == CHOOSE x \in src : TRUE
         IN  setIter_FilterLoop_Inverted(src \ {k}, fn, IF fn[k] THEN newSet ELSE newSet \cup {k})

\* for k := range it.internalSet.set { if fn(k) { newSet.set[k] = struct{}{} } }
RECURSIVE setIter_FilterLoop(_, _, _)
setIter_FilterLoop(src, fn, newSet) ==
    IF src = {} THEN newSet
    ELSE LET k == CHOOSE x \in src : TRUE
         IN  setIter_FilterLoop(src \ {k}, fn, IF fn[k] THEN newSet \cup {k} ELSE newSet)

\* A step turns heap, allocation count and cursor into [store, nobj, cur].

\* Map, Filter of the setIter whose Collect returns the set:
\*   newSet := New[T](); loop; it.internalSet = newSet; return it.internalSet.Iter()
setIter_Map(st, n, it, fn) ==
    LET newSet == n + 1
    IN  [store |-> [st EXCEPT ![newSet] = setIter_MapLoop(st[it.internalSet], fn, Set_New)],
         nobj  |-> newSet,
         cur   |-> Set_Iter(newSet)]

setIter_Filter(st, n, it, fn) ==
    LET newSet == n + 1
    IN  [store |-> [st EXCEPT ![newSet] = setIter_FilterLoop(st[it.internalSet], fn, Set_New)],
         nobj  |-> newSet,
         cur   |-> Set_Iter(newSet)]

\* Map, Filter of the setIter whose Collect commits:
\*   newSet := New[T](); loop; it.internalSet.set = newSet.set; return it.internalSet.Iter()
\* (newSet itself is dropped: only its map lives on, as the map of it.internalSet)
setIterCommit_Map(st, n, it, fn) ==
    [store |-> [st EXCEPT ![it.internalSet] = setIter_MapLoop(st[it.internalSet], fn, Set_New)],
     nobj  |-> n,
     cur   |-> SetCommit_Iter(it.internalSet)]

setIterCommit_Filter(st, n, it, fn) ==
    [store |-> [st EXCEPT ![it.internalSet] = setIter_FilterLoop(st[it.internalSet], fn, Set_New)],
     nobj  |-> n,
     cur   |-> SetCommit_Iter(it.internalSet)]

\* func (it *setIter[T]) Collect():  it.set.set = it.internalSet.set
setIterCommit_Collect(st, it) == [st EXCEPT ![it.set] = st[it.internalSet]]

\* func (it *setIter[T]) Collect() *Set[T]:  return it.internalSet
setIter_Collect(it) == it.internalSet

Step(name, fn, pred) == [op |-> name, fn |-> fn, pred |-> pred]

InitPipe ==
    /\ variant \in {"return", "commit"}
    /\ \E s0 \in SUBSET Elems : store = [o \in Objs |-> IF o = 1 THEN s0 ELSE {}]
    /\ nobj = 1
    /\ user = 1
    /\ cur = NoCursor
    /\ origin = Nil
    /\ originAt = {}
    /\ step = Step("New", Ident, Always)
    /\ phase = "idle"
    /\ ended = "ok" /\ reuse = FALSE /\ collected = FALSE
    /\ nsteps = 0

\* the call returns normally
Returned == ended' = "ok" /\ reuse' = (phase = "terminated")

\* it := s.Iter()
PipeIter ==
    /\ PipeOnly
    /\ phase = "idle"
    /\ cur' = IF variant = "return" THEN Set_Iter(user) ELSE SetCommit_Iter(user)
    /\ origin' = user
    /\ originAt' = store[user]
    /\ step' = Step("Iter", Ident, Always)
    /\ phase' = "chaining"
    /\ Returned
    /\ UNCHANGED <<variant, store, nobj, user, collected, nsteps>>

\* no method of the cursors tests whether a Collect or ForEach was already
\* made on the cursor: the call runs as on a cursor in a chain. The program
\* makes one such call at most.
Callable == phase \in {"chaining", "terminated"}

\* the phase after a call on the cursor that leaves a chain in phase p
After(p) == IF phase = "terminated" THEN "reused" ELSE p

StepBecomes(r) ==
    /\ Returned
    /\ store' = r.store
    /\ nobj' = r.nobj
    /\ cur' = r.cur
    /\ nsteps' = nsteps + 1
    /\ phase' = After(phase)
    /\ UNCHANGED <<variant, user, origin, originAt, collected>>

\* it = it.Map(fn)
PipeMap(fn) ==
    /\ PipeOnly
    /\ Callable
    /\ nsteps < MaxSteps
    /\ StepBecomes(IF variant = "return" THEN setIter_Map(store, nobj, cur, fn)
                                         ELSE setIterCommit_Map(store, nobj, cur, fn))
    /\ step' = Step("Map", fn, Always)

\* it = it.Filter(fn)
PipeFilter(fn) ==
    /\ PipeOnly
    /\ Callable
    /\ nsteps < MaxSteps
    /\ StepBecomes(IF variant = "return" THEN setIter_Filter(store, nobj, cur, fn)
                                         ELSE setIterCommit_Filter(store, nobj, cur, fn))
    /\ step' = Step("Filter", Ident, fn)

\* it.ForEach(fn): fn is called once per key; it touches no set
PipeForEach ==
    /\ PipeOnly
    /\ Callable
    /\ Returned
    /\ step' = Step("ForEach", Ident, Always)
    /\ phase' = After("terminated")
    /\ UNCHANGED <<variant, store, nobj, user, cur, origin, originAt, collected, nsteps>>

\* s = it.Collect()   or   it.Collect()
PipeCollect ==
    /\ PipeOnly
    /\ Callable
    /\ Returned
    /\ IF variant = "return"
       THEN user' = setIter_Collect(cur) /\ store' = store /\ collected' = TRUE
       ELSE user' = user /\ store' = setIterCommit_Collect(store, cur)
            /\ collected' = collected
    /\ step' = Step("Collect", Ident, Always)
    /\ phase' = After("terminated")
    /\ UNCHANGED <<variant, nobj, cur, origin, originAt, nsteps>>

\* it.Map(fn) or it.Filter(fn) with a callback that panics at some key: the
\* loop is left before the assignment that ends the step, so nothing is
\* written. The callback is called only when the working set has a key.
PipePanic(op) ==
    /\ PipeOnly
    /\ Callable
    /\ store[cur.internalSet] # {}
    /\ step' = Step(op, Ident, Always)
    /\ ended' = "panic" /\ reuse' = (phase = "terminated")
    /\ phase' = After("failed")
    /\ UNCHANGED <<variant, store, nobj, user, cur, origin, originAt, collected, nsteps>>

\* s.Insert(k), s.Delete(k) on the program's set, outside a chain
PipeInsert(k) ==
    /\ PipeOnly
    /\ phase # "chaining"
    /\ store' = [store EXCEPT ![user] = Set_Insert(store[user], k)]
    /\ step' = Step("Insert", Ident, Always)
    /\ ended' = "ok" /\ reuse' = FALSE
    /\ UNCHANGED <<variant, nobj, user, cur, origin, originAt, phase, collected, nsteps>>

PipeDelete(k) ==
    /\ PipeOnly
    /\ phase # "chaining"
    /\ store' = [store EXCEPT ![user] = Set_Delete(store[user], k)]
    /\ step' = Step("Delete", Ident, Always)
    /\ ended' = "ok" /\ reuse' = FALSE
    /\ UNCHANGED <<variant, nobj, user, cur, origin, originAt, phase, collected, nsteps>>

NextPipe ==
    \/ PipeIter
    \/ \E fn \in MapFns : PipeMap(fn)
    \/ \E fn \in FilterFns : PipeFilter(fn)
    \/ PipeForEach
    \/ PipeCollect
    \/ \E op \in {"Map", "Filter"} : PipePanic(op)
    \/ \E k \in Elems : PipeInsert(k)
    \/ \E k \in Elems : PipeDelete(k)

\* ------------------------- package concurrentset: the cursor concurrentSetIter
\* The file of the ConcurrentSet itself (its fields mu and set, New, Iter,
\* Insert) is not among the sources; what is modelled of it follows the
\* description of the guard: a reader/writer lock, shared for queries,
\* exclusive for Insert.

Threads == {"t1", "t2"}
NoThread == "none"
Shared == "s"                  \* the ConcurrentSet the threads share
\* the sets newSet := New[T]() of thread t can be: a thread refers to one of
\* them at most once the step that made the other has returned
Private == [t \in Threads |-> IF t = "t1" THEN {"a1", "b1"} ELSE {"a2", "b2"}]
CSets == {Shared} \cup UNION {Private[t] : t \in Threads}

\* s.Iter(): the cursor refers to the receiver with both fields
ConcurrentSet_Iter(s) == [set |-> s, internalSet |-> s]

\* the guard a thread in Lock() waits for: that of the set its callback
\* inserts into (the set its step traverses), else that of the shared set
Wanted(t) == IF inner[t] THEN held[t] ELSE Shared
Pending(o) == \E t \in Threads : pc[t] = "lock" /\ Wanted(t) = o

\* sync.RWMutex: RLock proceeds unless a thread holds the lock exclusively or
\* waits in Lock(); Lock proceeds when no thread holds it in either mode
CanRLock(o) == writer[o] = NoThread /\ ~Pending(o)
CanLock(o) == writer[o] = NoThread /\ readers[o] = {}

\* the mode in which thread t holds the guard of o
HeldMode(t, o) ==
    IF writer[o] = t THEN "exclusive"
    ELSE IF t \in readers[o] THEN "shared"
    ELSE "none"

Call(name, fn, pred, key) == [op |-> name, fn |-> fn, pred |-> pred, key |-> key]
NoCall == Call("none", Ident, Always, ZeroValue)
NoWrite == [thread |-> NoThread, kind |-> "none", mode |-> "none"]

InitConc ==
    /\ \E s0 \in SUBSET Elems :
           cstore = [o \in CSets |-> IF o = Shared THEN s0 ELSE {}] /\ cinit = s0
    /\ readers = [o \in CSets |-> {}]
    /\ writer = [o \in CSets |-> NoThread]
    /\ iters = [t \in Threads |-> ConcurrentSet_Iter(Shared)]
    /\ pc = [t \in Threads |-> "idle"]
    /\ call = [t \in Threads |-> NoCall]
    /\ built = [t \in Threads |-> {}]
    /\ held = [t \in Threads |-> Shared]
    /\ wr = NoWrite

IdleConc ==
    /\ cstore = [o \in CSets |-> {}] /\ cinit = {}
    /\ readers = [o \in CSets |-> {}]
    /\ writer = [o \in CSets |-> NoThread]
    /\ iters = [t \in Threads |-> ConcurrentSet_Iter(Shared)]
    /\ pc = [t \in Threads |-> "idle"]
    /\ call = [t \in Threads |-> NoCall]
    /\ built = [t \in Threads |-> {}]
    /\ held = [t \in Threads |-> Shared]
    /\ wr = NoWrite

\* thread t calls it.Map(fn), it.Filter(fn) or it.ForEach(fn):  newSet := New[T]()
CallStep(t, c) ==
    /\ ConcOnly
    /\ pc[t] = "idle"
    /\ call' = [call EXCEPT ![t] = c]
    /\ built' = [built EXCEPT ![t] = Set_New]
    /\ pc' = [pc EXCEPT ![t] = "rlock"]
    /\ UNCHANGED <<cstore, readers, writer, cinit, iters, held, wr>>

\* a faulty step: the loop is entered without the shared hold
StepRLock_NoHold(t) ==
    /\ ConcOnly
    /\ pc[t] = "rlock"
    /\ held' = [held EXCEPT ![t] = iters[t].internalSet]
    /\ pc' = [pc EXCEPT ![t] = "range"]
    /\ UNCHANGED <<cstore, readers, writer, cinit, iters, call, built, wr>>

\* it.internalSet.mu.RLock(); defer it.internalSet.mu.RUnlock()
\* (the deferred call is bound to the mutex it.internalSet refers to now)
StepRLock(t) ==
    /\ ConcOnly
    /\ pc[t] = "rlock"
    /\ CanRLock(iters[t].internalSet)
    /\ readers' = [readers EXCEPT ![iters[t].internalSet] = @ \cup {t}]
    /\ held' = [held EXCEPT ![t] = iters[t].internalSet]
    /\ pc' = [pc EXCEPT ![t] = "range"]
    /\ UNCHANGED <<cstore, writer, cinit, iters, call, built, wr>>

\* for k := range it.internalSet.set { ... }: the map it.internalSet.set
\* refers to when the loop starts is ranged over
StepRange(t) ==
    /\ ConcOnly
    /\ pc[t] = "range"
    /\ LET src == cstore[iters[t].internalSet]
       IN  built' = [built EXCEPT ![t] =
               IF call[t].op = "Map" THEN setIter_MapLoop(src, call[t].fn, built[t])
               ELSE IF call[t].op = "Filter" THEN setIter_FilterLoop(src, call[t].pred, built[t])
               ELSE built[t]]
    /\ pc' = [pc EXCEPT ![t] = IF call[t].op = "ForEach" THEN "return" ELSE "assign"]
    /\ UNCHANGED <<cstore, readers, writer, cinit, iters, call, held, wr>>

\* it.internalSet.set = newSet.set
StepAssign(t) ==
    /\ ConcOnly
    /\ cvariant = "commit"
    /\ pc[t] = "assign"
    /\ cstore' = [cstore EXCEPT ![iters[t].internalSet] = built[t]]
    /\ wr' = [thread |-> t, kind |-> "replace", mode |-> HeldMode(t, iters[t].internalSet)]
    /\ pc' = [pc EXCEPT ![t] = "return"]
    /\ UNCHANGED <<readers, writer, cinit, iters, call, built, held>>

\* a faulty return: RUnlock() is called on the guard of the set the cursor
\* refers to when the method returns
StepReturn_LateBound(t) ==
    /\ ConcOnly
    /\ pc[t] = "return"
    /\ iters' = [iters EXCEPT ![t] = IF call[t].op = "ForEach" THEN @
                                ELSE ConcurrentSet_Iter(@.internalSet)]
    /\ readers' = [readers EXCEPT ![iters[t].internalSet] = @ \ {t}]
    /\ pc' = [pc EXCEPT ![t] = "done"]
    /\ UNCHANGED <<cstore, writer, cinit, call, built, held, wr>>

\* return it.internalSet.Iter(), then the deferred RUnlock()
StepReturn(t) ==
    /\ ConcOnly
    /\ pc[t] = "return"
    /\ iters' = [iters EXCEPT ![t] = IF call[t].op = "ForEach" THEN @
                                ELSE ConcurrentSet_Iter(@.internalSet)]
    /\ readers' = [readers EXCEPT ![held[t]] = @ \ {t}]
    /\ pc' = [pc EXCEPT ![t] = "done"]
    /\ UNCHANGED <<cstore, writer, cinit, call, built, held, wr>>

\* thread t calls it.Collect():  it.set.set = it.internalSet.set, no guard taken.
\* The statement is a load of it.internalSet.set ...
CollectLoad(t) ==
    /\ ConcOnly
    /\ pc[t] = "idle"
    /\ call' = [call EXCEPT ![t] = Call("Collect", Ident, Always, ZeroValue)]
    /\ built' = [built EXCEPT ![t] = cstore[iters[t].internalSet]]
    /\ pc' = [pc EXCEPT ![t] = "collect"]
    /\ UNCHANGED <<cstore, readers, writer, cinit, iters, held, wr>>

\* ... and a store to it.set.set
CollectStore(t) ==
    /\ ConcOnly
    /\ pc[t] = "collect"
    /\ cstore' = [cstore EXCEPT ![iters[t].set] = built[t]]
    /\ wr' = [thread |-> t, kind |-> "replace", mode |-> HeldMode(t, iters[t].set)]
    /\ pc' = [pc EXCEPT ![t] = "done"]
    /\ UNCHANGED <<readers, writer, cinit, iters, call, built, held>>

\* thread t calls s.Insert(k) on the shared set:  s.mu.Lock()
InsertLock(t, k) ==
    /\ ConcOnly
    /\ pc[t] = "idle"
    /\ CanLock(Shared)
    /\ writer' = [writer EXCEPT ![Shared] = t]
    /\ call' = [call EXCEPT ![t] = Call("Insert", Ident, Always, k)]
    /\ pc' = [pc EXCEPT ![t] = "insert"]
    /\ UNCHANGED <<cstore, readers, cinit, iters, built, held, wr>>

\* s.set[k] = struct{}{}; s.mu.Unlock()
InsertUnlock(t) ==
    /\ ConcOnly
    /\ pc[t] = "insert"
    /\ cstore' = [cstore EXCEPT ![Shared] = Set_Insert(@, call[t].key)]
    /\ wr' = [thread |-> t, kind |-> "insert", mode |-> HeldMode(t, Shared)]
    /\ writer' = [writer EXCEPT ![Shared] = NoThread]
    /\ pc' = [pc EXCEPT ![t] = "done"]
    /\ UNCHANGED <<readers, cinit, iters, call, built, held>>

NextConc ==
    \/ \E t \in Threads, fn \in MapFns : CallStep(t, Call("Map", fn, Always, ZeroValue))
    \/ \E t \in Threads, fn \in FilterFns : CallStep(t, Call("Filter", Ident, fn, ZeroValue))
    \/ \E t \in Threads : CallStep(t, Call("ForEach", Ident, Always, ZeroValue))
    \/ \E t \in Threads : StepRLock(t)
    \/ \E t \in Threads : StepRange(t)
    \/ \E t \in Threads : StepAssign(t)
    \/ \E t \in Threads : StepReturn(t)
    \/ \E t \in Threads : CollectLoad(t)
    \/ \E t \in Threads : CollectStore(t)
    \/ \E t \in Threads, k \in Elems : InsertLock(t, k)
    \/ \E t \in Threads : InsertUnlock(t)

\* ---------------------------------------------- chains of concurrent steps
\* Each thread has a cursor on the shared set and makes two calls, one after
\* the other: steps on its cursor, whose callback may panic, and inserts into
\* the shared set.

IdleGuard ==
    /\ cvariant = "commit"
    /\ inner = [t \in Threads |-> FALSE]
    /\ outcome = [t \in Threads |-> "none"]
    /\ again = [t \in Threads |-> FALSE]

\* the shared set is empty or holds every element
InitGuard ==
    /\ cvariant \in {"commit", "return"}
    /\ inner = [t \in Threads |-> FALSE]
    /\ outcome = [t \in Threads |-> "none"]
    /\ again = [t \in Threads |-> FALSE]
    /\ \E s0 \in {{}, Elems} :
           cstore = [o \in CSets |-> IF o = Shared THEN s0 ELSE {}] /\ cinit = s0
    /\ readers = [o \in CSets |-> {}]
    /\ writer = [o \in CSets |-> NoThread]
    /\ iters = [t \in Threads |-> ConcurrentSet_Iter(Shared)]
    /\ pc = [t \in Threads |-> "idle"]
    /\ call = [t \in Threads |-> NoCall]
    /\ built = [t \in Threads |-> {}]
    /\ held = [t \in Threads |-> Shared]
    /\ wr = NoWrite

\* newSet := New[T](): the set of thread t that its cursor does not refer to
NewSet(t) == CHOOSE o \in Private[t] : o # iters[t].internalSet

\* it.internalSet = newSet   (the cursor whose Collect returns the set); the
\* set the cursor referred to before is referred to by nothing else, unless
\* it is the shared set
StepRepoint(t) ==
    /\ GuardOnly
    /\ cvariant = "return"
    /\ pc[t] = "assign"
    /\ cstore' = [o \in CSets |->
                    IF o = NewSet(t) THEN built[t]
                    ELSE IF o = iters[t].internalSet /\ o # Shared THEN {}
                    ELSE cstore[o]]
    /\ iters' = [iters EXCEPT ![t] = ConcurrentSet_Iter(NewSet(t))]
    /\ pc' = [pc EXCEPT ![t] = "return"]
    /\ UNCHANGED <<readers, writer, cinit, call, built, held, wr, guardVars>>

\* the callback panics at some key of the traversed set: the loop and the
\* method are left, the deferred RUnlock() runs
StepPanic(t) ==
    /\ GuardOnly
    /\ pc[t] = "range"
    /\ cstore[iters[t].internalSet] # {}
    /\ outcome' = [outcome EXCEPT ![t] = "panic"]
    /\ pc' = [pc EXCEPT ![t] = "return"]
    /\ UNCHANGED <<cstore, readers, writer, cinit, iters, call, built, held, wr,
                   cvariant, inner, again>>

\* the call of thread t has returned (or its panic was recovered): the thread
\* goes on to its next call
Resume(t) ==
    /\ GuardOnly
    /\ pc[t] = "done"
    /\ ~again[t]
    /\ again' = [again EXCEPT ![t] = TRUE]
    /\ pc' = [pc EXCEPT ![t] = "idle"]
    /\ call' = [call EXCEPT ![t] = NoCall]
    /\ built' = [built EXCEPT ![t] = {}]
    /\ outcome' = [outcome EXCEPT ![t] = "none"]
    /\ inner' = [inner EXCEPT ![t] = FALSE]
    /\ UNCHANGED <<cstore, readers, writer, cinit, iters, held, wr, cvariant>>

\* thread t calls s.Insert(k) on the shared set and waits in s.mu.Lock()
InsertCall(t, k) ==
    /\ GuardOnly
    /\ pc[t] = "idle"
    /\ call' = [call EXCEPT ![t] = Call("Insert", Ident, Always, k)]
    /\ pc' = [pc EXCEPT ![t] = "lock"]
    /\ UNCHANGED <<cstore, readers, writer, cinit, iters, built, held, wr, guardVars>>

\* Lock() returns
InsertAcquire(t) ==
    /\ GuardOnly
    /\ pc[t] = "lock"
    /\ CanLock(Wanted(t))
    /\ writer' = [writer EXCEPT ![Wanted(t)] = t]
    /\ pc' = [pc EXCEPT ![t] = "insert"]
    /\ UNCHANGED <<cstore, readers, cinit, iters, call, built, held, wr, guardVars>>

\* the callback of the step of thread t, called with the first key, calls
\* Insert on the set the step traverses and waits in Lock() on its guard
CallbackInsert(t) ==
    /\ GuardOnly
    /\ pc[t] = "range"
    /\ cstore[iters[t].internalSet] # {}
    /\ inner' = [inner EXCEPT ![t] = TRUE]
    /\ pc' = [pc EXCEPT ![t] = "lock"]
    /\ UNCHANGED <<cstore, readers, writer, cinit, iters, call, built, held, wr,
                   cvariant, outcome, again>>

\* the calls a thread makes on its cursor
StepCalls ==
    {Call("Map", Half, Always, ZeroValue), Call("Filter", Ident, IsOdd, ZeroValue),
     Call("ForEach", Ident, Always, ZeroValue)}

\* what thread t does once it has made a call
Progress(t) ==
    \/ StepRLock(t)
    \/ StepRange(t)
    \/ StepAssign(t)
    \/ StepRepoint(t)
    \/ StepReturn(t)
    \/ InsertAcquire(t)
    \/ InsertUnlock(t)

NextGuard ==
    \/ \E t \in Threads, c \in StepCalls : CallStep(t, c)
    \/ \E t \in Threads : StepRLock(t)
    \/ \E t \in Threads : StepRange(t)
    \/ \E t \in Threads : StepPanic(t)
    \/ \E t \in Threads : StepAssign(t)
    \/ \E t \in Threads : StepRepoint(t)
    \/ \E t \in Threads : StepReturn(t)
    \/ \E t \in Threads : Resume(t)
    \/ \E t \in Threads : InsertCall(t, ZeroValue)
    \/ \E t \in Threads : InsertAcquire(t)
    \/ \E t \in Threads : InsertUnlock(t)

NextReenter ==
    \/ \E t \in Threads, c \in StepCalls : CallStep(t, c)
    \/ \E t \in Threads : StepRLock(t)
    \/ \E t \in Threads : StepRange(t)
    \/ \E t \in Threads : CallbackInsert(t)
    \/ \E t \in Threads : StepAssign(t)
    \/ \E t \in Threads : StepRepoint(t)
    \/ \E t \in Threads : StepReturn(t)
    \/ \E t \in Threads : Resume(t)
    \/ \E t \in Threads : InsertCall(t, ZeroValue)
    \/ \E t \in Threads : InsertAcquire(t)
    \/ \E t \in Threads : InsertUnlock(t)

\* ----------------------------------- sets, maps and slices as Go references
\* A Go map is a reference, and a slice is a window [arr, len] on a backing
\* array that other slices may share. Map m holds the keys maps[m]; the
\* backing array a holds arrs[a], cap(a) entries. Every slice here starts at
\* the first entry of its array.

MapIds == {1, 2}
ArrIds == {1, 2, 3, 4}

Slice(arr, len) == [arr |-> arr, len |-> len]

\* []T{} and make([]T, 0, 0): no backing array
NilSlice == Slice(Nil, 0)

NoObject == [items |-> NilSlice, set |-> Nil]

Cap(a, sl) == IF sl.arr = Nil THEN 0 ELSE Len(a[sl.arr])

\* the entries s[0], ..., s[len(s)-1] of slice sl
Value(a, sl) == IF sl.arr = Nil THEN <<>> ELSE SubSeq(a[sl.arr], 1, sl.len)

Zeros(n) == [i \in 1..n |-> ZeroValue]

\* a backing array that no slice in use refers to
FreeArr(used) == CHOOSE n \in ArrIds \ used : \A j \in ArrIds \ used : n <= j

\* append(sl, k): within the capacity the entry is written in place; beyond it
\* the entries move to a new array of twice the capacity (the growth of the
\* Go runtime for a small slice of int)
GoAppend(a, sl, k, used) ==
    IF sl.len < Cap(a, sl)
    THEN [arrs  |-> [a EXCEPT ![sl.arr][sl.len + 1] = k],
          slice |-> Slice(sl.arr, sl.len + 1)]
    ELSE LET n == FreeArr(used)
             newcap == IF Cap(a, sl) = 0 THEN 1 ELSE 2 * Cap(a, sl)
         IN  [arrs  |-> [a EXCEPT ![n] = Value(a, sl) \o <<k>> \o Zeros(newcap - sl.len - 1)],
              slice |-> Slice(n, sl.len + 1)]

Heap(m, a, o) == [maps |-> m, arrs |-> a, obj |-> o]

\* func (s *Set[T]) Insert(k T), Delete(k T), Clear(): on the map s.set refers to
SetRef_Insert(m, a, o, k) == Heap([m EXCEPT ![o.set] = Set_Insert(@, k)], a, o)
SetRef_Delete(m, a, o, k) == Heap([m EXCEPT ![o.set] = Set_Delete(@, k)], a, o)
SetRef_Clear(m, a, o) == Heap([m EXCEPT ![o.set] = Set_Clear(@)], a, o)

\* func (s *Set[T]) Clone() *Set[T]:  &Set[T]{set: maps.Clone(s.set)}
SetRef_Clone(m, a, o, newMap) ==
    Heap([m EXCEPT ![newMap] = Set_Clone(m[o.set])], a, [items |-> NilSlice, set |-> newMap])

\* func (s *Set[T]) Keys() []T: a new slice of capacity s.Len(), filled in the
\* order q in which the range over the map yields the keys
SetRef_Keys(m, a, o, q, used) ==
    IF Set_Len(m[o.set]) = 0 THEN [arrs |-> a, slice |-> NilSlice]
    ELSE LET n == FreeArr(used)
         IN  [arrs |-> [a EXCEPT ![n] = q], slice |-> Slice(n, Len(q))]

\* func (s *OrderedSet[T]) Insert(k T)
OrderedRef_Insert(m, a, o, k, used) ==
    IF k \in m[o.set] THEN Heap(m, a, o)
    ELSE LET r == GoAppend(a, o.items, k, used \cup ({o.items.arr} \ {Nil}))
         IN  Heap([m EXCEPT ![o.set] = @ \cup {k}], r.arrs, [o EXCEPT !.items = r.slice])

\* s.items = append(s.items[:i], s.items[i+1:]...): the entries after i move
\* one place down in the same array, the last entry stays where it was
SpliceInPlace(a, sl, i) ==
    [arrs  |-> [a EXCEPT ![sl.arr] =
                   [j \in 1..Len(@) |-> IF j >= i /\ j < sl.len THEN @[j + 1] ELSE @[j]]],
     slice |-> Slice(sl.arr, sl.len - 1)]

\* func (s *OrderedSet[T]) Delete(k T)
OrderedRef_Delete(m, a, o, k) ==
    IF k \notin m[o.set] THEN Heap(m, a, o)
    ELSE LET i == FirstIndex(Value(a, o.items), k)
             deleted == [m EXCEPT ![o.set] = @ \ {k}]
         IN  IF i = 0 THEN Heap(deleted, a, o)
             ELSE LET r == SpliceInPlace(a, o.items, i)
                  IN  Heap(deleted, r.arrs, [o EXCEPT !.items = r.slice])

\* func (s *OrderedSet[T]) Clear():  clear(s.items); clear(s.set)
OrderedRef_Clear(m, a, o) ==
    Heap([m EXCEPT ![o.set] = {}],
         IF o.items.arr = Nil THEN a
         ELSE [a EXCEPT ![o.items.arr] =
                  [j \in 1..Len(@) |-> IF j <= o.items.len THEN ZeroValue ELSE @[j]]],
         o)

RECURSIVE OrderedRef_InsertEach(_, _, _, _, _)
OrderedRef_InsertEach(m, a, o, v, used) ==
    IF v = <<>> THEN Heap(m, a, o)
    ELSE LET r == OrderedRef_Insert(m, a, o, Head(v), used)
         IN  OrderedRef_InsertEach(r.maps, r.arrs, r.obj, Tail(v), used)

\* func (s *OrderedSet[T]) Clone() *OrderedSet[T]:  New() and Insert of every item
OrderedRef_Clone(m, a, o, newMap, used) ==
    OrderedRef_InsertEach([m EXCEPT ![newMap] = {}], a,
                          [items |-> NilSlice, set |-> newMap], Value(a, o.items), used)

\* func (s *OrderedSet[T]) Keys() []T:  return s.items
OrderedRef_Keys(o) == o.items

\* The program makes a set from a slice, and then calls Insert, Delete and
\* Clear on it, clones it and calls the same on the clone, takes its Keys()
\* and writes to the entries of the slice it got.

ROp(name, on, arg) == [op |-> name, on |-> on, arg |-> arg]

\* the backing arrays the program can reach
Used == {source.items.arr, clone.items.arr, keys.arr} \ {Nil}

Target(who) == IF who = "source" THEN source ELSE clone

\* what Keys(), Len() and Contains() can tell of a set
Contents(o) == [keys |-> Value(arrs, o.items), set |-> IF o.set = Nil THEN {} ELSE maps[o.set]]

\* s := FromSlice(v)
InitRef ==
    /\ rkind \in {"Set", "OrderedSet"}
    /\ \E v \in InputSeqs :
           LET made == OrderedSet_FromSlice(v)
               sliced == rkind = "OrderedSet" /\ v # <<>>
           IN  /\ maps = [m \in MapIds |->
                            IF m # 1 THEN {}
                            ELSE IF rkind = "Set" THEN Set_FromSlice(v) ELSE made.set]
               /\ arrs = [a \in ArrIds |->
                            IF a = 1 /\ sliced
                            THEN made.items \o Zeros(Len(v) - Len(made.items))
                            ELSE <<>>]
               /\ source = [items |-> IF sliced THEN Slice(1, Len(made.items)) ELSE NilSlice,
                            set |-> 1]
               /\ rlast = ROp("FromSlice", "source", v)
    /\ clone = NoObject
    /\ keys = NilSlice
    /\ gotKeys = FALSE
    /\ keysAt = <<>>
    /\ rcalls = 0

IdleRef ==
    /\ rkind = "Set" /\ maps = [m \in MapIds |-> {}] /\ arrs = [a \in ArrIds |-> <<>>]
    /\ source = [items |-> NilSlice, set |-> 1] /\ clone = NoObject /\ keys = NilSlice
    /\ gotKeys = FALSE /\ keysAt = <<>> /\ rlast = ROp("FromSlice", "source", <<>>)
    /\ rcalls = 0

\* the heap and the references after a call; an array no slice refers to any
\* more is collected
RefBecomes(m, a, s, c, ks) ==
    /\ maps' = m
    /\ source' = s
    /\ clone' = c
    /\ keys' = ks
    /\ arrs' = [i \in ArrIds |->
                  IF i \in {s.items.arr, c.items.arr, ks.arr} THEN a[i] ELSE <<>>]
    /\ rcalls' = rcalls + 1
    /\ UNCHANGED rkind

\* a call on the source or on the clone that returned the heap r
RefCalled(who, r) ==
    RefBecomes(r.maps, r.arrs,
               IF who = "source" THEN r.obj ELSE source,
               IF who = "clone" THEN r.obj ELSE clone,
               keys)

Callee(who) == rcalls < MaxCalls /\ (who = "clone" => clone # NoObject)

RefInsert(who, k) ==
    /\ RefOnly
    /\ Callee(who)
    /\ RefCalled(who, IF rkind = "Set"
                      THEN SetRef_Insert(maps, arrs, Target(who), k)
                      ELSE OrderedRef_Insert(maps, arrs, Target(who), k, Used))
    /\ rlast' = ROp("Insert", who, <<k>>)
    /\ UNCHANGED <<gotKeys, keysAt>>

RefDelete(who, k) ==
    /\ RefOnly
    /\ Callee(who)
    /\ RefCalled(who, IF rkind = "Set"
                      THEN SetRef_Delete(maps, arrs, Target(who), k)
                      ELSE OrderedRef_Delete(maps, arrs, Target(who), k))
    /\ rlast' = ROp("Delete", who, <<k>>)
    /\ UNCHANGED <<gotKeys, keysAt>>

RefClear(who) ==
    /\ RefOnly
    /\ Callee(who)
    /\ RefCalled(who, IF rkind = "Set"
                      THEN SetRef_Clear(maps, arrs, Target(who))
                      ELSE OrderedRef_Clear(maps, arrs, Target(who)))
    /\ rlast' = ROp("Clear", who, <<>>)
    /\ UNCHANGED <<gotKeys, keysAt>>

\* c := s.Clone(); the new map is map 2
RefClone ==
    /\ RefOnly
    /\ rcalls < MaxCalls
    /\ clone = NoObject
    /\ RefCalled("clone", IF rkind = "Set"
                          THEN SetRef_Clone(maps, arrs, source, 2)
                          ELSE OrderedRef_Clone(maps, arrs, source, 2, Used))
    /\ rlast' = ROp("Clone", "source", <<>>)
    /\ UNCHANGED <<gotKeys, keysAt>>

\* ks := s.Keys()
RefKeys ==
    /\ RefOnly
    /\ rcalls < MaxCalls
    /\ ~gotKeys
    /\ IF rkind = "Set"
       THEN \E q \in Set_Keys(maps[source.set]) :
                LET r == SetRef_Keys(maps, arrs, source, q, Used)
                IN  /\ RefBecomes(maps, r.arrs, source, clone, r.slice)
                    /\ keysAt' = Value(r.arrs, r.slice)
       ELSE /\ RefBecomes(maps, arrs, source, clone, OrderedRef_Keys(source))
            /\ keysAt' = Value(arrs, OrderedRef_Keys(source))
    /\ gotKeys' = TRUE
    /\ rlast' = ROp("Keys", "source", <<>>)

\* ks[i] = v, with i counted from 1
RefOverwrite(i, v) ==
    /\ RefOnly
    /\ rcalls < MaxCalls
    /\ gotKeys
    /\ i \in 1..keys.len
    /\ RefBecomes(maps, [arrs EXCEPT ![keys.arr][i] = v], source, clone, keys)
    /\ keysAt' = [keysAt EXCEPT ![i] = v]
    /\ rlast' = ROp("Overwrite", "keys", <<i, v>>)
    /\ UNCHANGED gotKeys

NextRef ==
    \/ \E who \in {"source", "clone"}, k \in Elems : RefInsert(who, k)
    \/ \E who \in {"source", "clone"}, k \in Elems : RefDelete(who, k)
    \/ \E who \in {"source", "clone"} : RefClear(who)
    \/ RefClone
    \/ RefKeys
    \/ \E i \in 1..MaxLen, v \in Elems : RefOverwrite(i, v)

\* the variables of a part of the program that a specification leaves alone
IdleCrud ==
    /\ kind = "Set" /\ set = Set_New /\ items = <<>> /\ oset = {}
    /\ lastOp = Op("New", <<>>, FALSE) /\ insLog = <<>> /\ insOnly = TRUE
    /\ panicked = FALSE

IdlePipe ==
    /\ variant = "return" /\ store = [o \in Objs |-> {}] /\ nobj = 1 /\ user = 1
    /\ cur = NoCursor /\ origin = Nil /\ originAt = {}
    /\ step = Step("New", Ident, Always) /\ phase = "idle" /\ nsteps = 0
    /\ ended = "ok" /\ reuse = FALSE /\ collected = FALSE

vars == <<crudVars, pipeVars, concVars, guardVars, refVars>>

\* the methods of Set and OrderedSet
Init == InitCrud /\ IdlePipe /\ IdleConc /\ IdleRef /\ IdleGuard

Next == NextCrud

Spec == Init /\ [][Next]_vars

\* the cursor chains of package set
PipeInit == IdleCrud /\ InitPipe /\ IdleConc /\ IdleRef /\ IdleGuard

SpecPipe == PipeInit /\ [][NextPipe]_vars

\* two threads, each making one call on a cursor of the shared ConcurrentSet
ConcInit == IdleCrud /\ IdlePipe /\ InitConc /\ IdleRef /\ IdleGuard

SpecConc == ConcInit /\ [][NextConc]_vars

\* chains of steps of two threads on cursors of the shared ConcurrentSet, with
\* callbacks that do not call back into the set
GuardInit == IdleCrud /\ IdlePipe /\ IdleRef /\ InitGuard

SpecGuard == GuardInit /\ [][NextGuard]_vars

\* every thread that can take a step takes one: the scheduler runs every
\* runnable goroutine, and the RWMutex lets no waiting reader or writer starve
SpecGuardFair == SpecGuard /\ \A t \in Threads : SF_vars(Progress(t))

\* the same with callbacks that insert into the set their step traverses
SpecReenter == GuardInit /\ [][NextReenter]_vars

\* a set, its clone and its Keys() slice
RefInit == IdleCrud /\ IdlePipe /\ IdleConc /\ InitRef /\ IdleGuard

SpecRef == RefInit /\ [][NextRef]_vars

\* ------------------------------------------------------------ properties

NoDuplicates(q) == \A i, j \in 1..Len(q) : q[i] = q[j] => i = j

\* the elements of a log of Insert calls, each at its first occurrence
RECURSIVE FirstOccurrences(_)
FirstOccurrences(log) ==
    IF log = <<>> THEN <<>>
    ELSE LET front == FirstOccurrences(SubSeq(log, 1, Len(log) - 1))
             last  == log[Len(log)]
         IN  IF last \in Range(front) THEN front ELSE Append(front, last)

\* C4: in every state of an OrderedSet the sequence has no duplicates, an
\* element is in the sequence exactly when Contains reports it, and Len()
\* is the number of elements of the store.
C4_OrderedConsistent ==
    kind = "OrderedSet" =>
        /\ NoDuplicates(OrderedSet_Keys(ordered))
        /\ \A e \in Elems :
               (e \in Range(OrderedSet_Keys(ordered))) <=> OrderedSet_Contains(ordered, e)
        /\ OrderedSet_Len(ordered) = Cardinality(oset)

\* C5: right after Clear(), in both variants, Len() is 0, Empty() is true,
\* Keys() is empty and Contains(e) is false for every e.
C5_ClearEmpties ==
    lastOp.op = "Clear" =>
        /\ LenNow = 0
        /\ EmptyNow
        /\ IF kind = "Set" THEN Set_Keys(set) = {<<>>}
                           ELSE OrderedSet_Keys(ordered) = <<>>
        /\ \A e \in Elems : ~ContainsNow(e)

\* C6: after any run of Insert calls on a new Set, Len() is the number of
\* distinct elements inserted and Contains holds of exactly those; and, in
\* any state, an Insert of an element already present changes neither Len()
\* nor the membership of any element.
C6_InsertUnique ==
    /\ [](kind = "Set" /\ insOnly =>
            /\ Set_Len(set) = Cardinality(Range(insLog))
            /\ \A e \in Elems : Set_Contains(set, e) <=> e \in Range(insLog))
    /\ [][\A k \in Elems :
            (kind = "Set" /\ lastOp'.op = "Insert" /\ lastOp'.arg = <<k>>
                /\ Set_Contains(set, k))
            => /\ Set_Len(set') = Set_Len(set)
               /\ \A e \in Elems : Set_Contains(set', e) <=> Set_Contains(set, e)]_vars

\* a run of three Insert calls on a new Set with one element inserted twice
C6_Witness ==
    /\ kind = "Set" /\ insOnly /\ lastOp.op = "Insert" /\ lastOp.hit
    /\ Len(insLog) = 3 /\ Set_Len(set) = 2

\* C7: in both variants Delete(e) of a contained e makes Contains(e) false,
\* lowers Len() by exactly one and keeps every other membership; Delete(e)
\* of an absent e changes neither Len() nor any membership.
C7_Delete ==
    [][\A k \in Elems :
        (lastOp'.op = "Delete" /\ lastOp'.arg = <<k>>) =>
            IF ContainsNow(k)
            THEN /\ ~ContainsNow(k)'
                 /\ LenNow' = LenNow - 1
                 /\ \A e \in Elems \ {k} : ContainsNow(e)' <=> ContainsNow(e)
            ELSE /\ LenNow' = LenNow
                 /\ \A e \in Elems : ContainsNow(e)' <=> ContainsNow(e)]_vars

\* an OrderedSet from which a contained element was just deleted, others staying
C7_Witness ==
    /\ kind = "OrderedSet" /\ lastOp.op = "Delete" /\ lastOp.hit
    /\ OrderedSet_Len(ordered) >= 2

\* C8: after any run of Insert calls on a new OrderedSet, Keys() is the
\* inserted elements in order of first occurrence.
C8_InsertOrder ==
    (kind = "OrderedSet" /\ insOnly) =>
        OrderedSet_Keys(ordered) = FirstOccurrences(insLog)

\* three Insert calls on a new OrderedSet, the third repeating the first
C8_Witness ==
    /\ kind = "OrderedSet" /\ insOnly /\ Len(insLog) = 3
    /\ insLog[3] = insLog[1] /\ insLog[2] # insLog[1]
    /\ OrderedSet_Keys(ordered) = <<insLog[1], insLog[2]>>

\* C9: Delete(e) on an OrderedSet leaves e neither in the store nor in the
\* sequence, and Keys() is the former Keys() without e, the rest in order.
C9_DeleteSplices ==
    [][\A k \in Elems :
        (kind = "OrderedSet" /\ lastOp'.op = "Delete" /\ lastOp'.arg = <<k>>) =>
            /\ ~OrderedSet_Contains(ordered, k)'
            /\ k \notin Range(OrderedSet_Keys(ordered)')
            /\ OrderedSet_Keys(ordered)' =
                   SelectSeq(OrderedSet_Keys(ordered), LAMBDA x : x # k)]_vars

\* C3: while a chain is under way (after Iter(), before ForEach or Collect)
\* the Set that Iter() was called on holds what it held at Iter().
C3_OriginUntouched ==
    phase = "chaining" => store[origin] = originAt

\* C10: a Map(fn) step leaves the cursor with a working set that is the image
\* under fn of the working set before the step, no larger than it.
C10_MapImage ==
    [][step'.op = "Map" =>
        /\ store'[cur'.internalSet] = {step'.fn[e] : e \in store[cur.internalSet]}
        /\ Cardinality(store'[cur'.internalSet]) <= Cardinality(store[cur.internalSet])]_vars

\* a Map step under which two elements of the set collided
C10_Witness ==
    /\ variant = "return" /\ step.op = "Map" /\ nsteps = 1
    /\ store[cur.internalSet] = {step.fn[e] : e \in store[origin]}
    /\ Cardinality(store[cur.internalSet]) < Cardinality(store[origin])

\* what a Map or Filter step makes of the contents x when it runs alone
Alone(c, x) ==
    IF c.op = "Map" THEN {c.fn[e] : e \in x} ELSE {e \in x : c.pred[e]}

\* C1: every replacement of a backing store (the assignment in Map, Filter
\* and Collect) is made by a thread that holds the guard of that set in
\* exclusive mode.
C1_ReplaceExclusive ==
    wr.kind = "replace" => wr.mode = "exclusive"

\* C2: when both threads have completed one Map or Filter step each on the
\* shared set, the set holds what the two steps produce when run one after
\* the other in one of the two orders.
C2_Linearizable ==
    (\A t \in Threads : pc[t] = "done" /\ call[t].op \in {"Map", "Filter"}) =>
        \E a, b \in Threads :
            /\ a # b
            /\ cstore[Shared] = Alone(call[b], Alone(call[a], cinit))

\* C11: a Filter(p) step leaves the cursor with a working set that holds
\* exactly the elements of the working set before the step for which p is
\* true: a subset of it, and empty when p is false for all of them.
C11_FilterSubset ==
    [][step'.op = "Filter" =>
        LET before == store[cur.internalSet]
            after  == store'[cur'.internalSet]
        IN  /\ after \subseteq before
            /\ \A e \in Elems : e \in after <=> (e \in before /\ step'.pred[e])
            /\ (\A e \in before : ~step'.pred[e]) => after = {}]_vars

\* a Filter step that kept some elements of the set and dropped others
C11_Witness ==
    /\ variant = "return" /\ step.op = "Filter" /\ nsteps = 1
    /\ store[cur.internalSet] # {}
    /\ store[cur.internalSet] # store[origin]
    /\ store[cur.internalSet] = {e \in store[origin] : step.pred[e]}

\* C13: WithCapacity(n) with n < 0 panics and hands the program no set (the
\* program's set is what it was); with n >= 0, zero included, it returns an
\* empty set: Len() is 0, Empty() is true and no element is contained.
C13_WithCapacity ==
    /\ [](lastOp.op = "WithCapacity" =>
            IF lastOp.arg[1] < 0
            THEN panicked
            ELSE ~panicked /\ LenNow = 0 /\ EmptyNow
                 /\ \A e \in Elems : ~ContainsNow(e))
    /\ [][(lastOp'.op = "WithCapacity" /\ lastOp'.arg[1] < 0) =>
            UNCHANGED <<set, items, oset>>]_vars

\* WithCapacity with a negative capacity was called on a program that holds a
\* set with elements
C13_Witness ==
    /\ lastOp.op = "WithCapacity" /\ lastOp.arg[1] < 0 /\ panicked
    /\ LenNow > 0

\* what a Collect or InsertSeq call makes of the membership of every element
CollectEffect ==
    /\ (lastOp'.op \in {"Collect", "CollectAll"} =>
            \A e \in Elems : ContainsNow(e)' <=> e \in Range(lastOp'.arg))
    /\ (lastOp'.op = "CollectAll" =>
            \A e \in Elems : ContainsNow(e)' <=> ContainsNow(e))
    /\ (lastOp'.op = "InsertSeq" =>
            \A e \in Elems : ContainsNow(e)' <=> (ContainsNow(e) \/ e \in Range(lastOp'.arg)))

\* C17: after s.Collect(seq), s contains exactly the values seq yields, and
\* what it held before and seq does not yield is gone; s.Collect(s.All())
\* leaves the contents of s unchanged; s.InsertSeq(seq) leaves s with what it
\* held before together with the values of seq.
C17_CollectReplaces == [][CollectEffect]_vars

\* C17, for the unordered Set alone
C17_SetCollectReplaces == [][kind = "Set" => CollectEffect]_vars

\* a Collect on a Set dropped an element that the sequence does not yield
C17_Witness ==
    /\ kind = "Set" /\ lastOp.op = "Collect" /\ lastOp.arg # <<>>
    /\ set = Range(lastOp.arg)

\* C15: a Map, Filter, ForEach or Collect call made on a cursor after a
\* Collect or ForEach was made on it does not return normally: it is signaled
\* as an error.
C15_ReuseSignaled == reuse => ended # "ok"

\* C16: when the callback of a Map or Filter step panics before Collect, the
\* set Iter() was called on holds exactly what it held when Iter() was called,
\* also when earlier steps of the chain completed.
C16_PanicLeavesOrigin ==
    (phase = "failed" /\ ended = "panic") => store[origin] = originAt

\* C19: where Collect returns a set, the set it returns is never the set
\* Iter() was called on, whatever the number of Map and Filter steps, and an
\* Insert or Delete on the returned set leaves the contents of that set alone.
C19_CollectedIsNew ==
    [][variant = "return" =>
        /\ (step'.op = "Collect" => user' # origin')
        /\ ((collected /\ step'.op \in {"Insert", "Delete"}) =>
                store'[origin] = store[origin])]_vars

\* what a call on the clone leaves of the source, and a call on the source of
\* the clone
CloneIndependent ==
    /\ (rlast'.on = "clone" => Contents(source)' = Contents(source))
    /\ ((rlast'.on = "source" /\ clone # NoObject) => Contents(clone)' = Contents(clone))

\* C12: the set Clone() returns has the elements of the source, for the
\* OrderedSet in the same order, and from then on no Insert, Delete or Clear
\* on the clone changes what the source holds, and none on the source changes
\* what the clone holds.
C12_CloneIndependent ==
    [][/\ (rlast'.op = "Clone" => Contents(clone)' = Contents(source)')
       /\ CloneIndependent]_vars

\* C12, without the comparison of clone and source when Clone() returns
C12_Independence == [][CloneIndependent]_vars

\* C14: the sequence Keys() returned holds what it held when it was returned
\* (or what the program wrote to it), whatever Insert, Delete or Clear is
\* called on the set afterwards; and a write to an entry of that sequence
\* changes nothing of the set, so nothing of what a later Keys() returns.
C14_KeysIndependent ==
    [][/\ (gotKeys' => Value(arrs, keys)' = keysAt')
       /\ (rlast'.op = "Overwrite" => Contents(source)' = Contents(source))]_vars

\* C14, for the unordered Set alone
C14_SetKeysIndependent ==
    [][rkind = "Set" =>
        /\ (gotKeys' => Value(arrs, keys)' = keysAt')
        /\ (rlast'.op = "Overwrite" => Contents(source)' = Contents(source))]_vars

\* thread t is inside a Map, Filter or ForEach call
InStep(t) == pc[t] \in {"rlock", "range", "assign", "return"}

\* thread t holds no guard in either mode
GuardFree(t) == \A o \in CSets : t \notin readers[o] /\ writer[o] # t

C20_WitnessPanic ==
    \E t \in Threads : pc[t] = "done" /\ outcome[t] = "panic" /\ GuardFree(t)

\* the callback of the step of thread t has asked for the guard of the
\* traversed set in exclusive mode
CallbackWaits(t) == pc[t] = "lock" /\ inner[t]

\* C18: the callback of a Map, Filter or ForEach step runs while its thread
\* holds the guard of the traversed set in shared mode, so a callback that
\* asks for that guard in exclusive mode cannot be given it, and it waits for
\* ever: no step of the program ends the wait or reports it.
C18_CallbackNeverLocks ==
    /\ [](\A t \in Threads : CallbackWaits(t) =>
              (t \in readers[Wanted(t)] /\ ~CanLock(Wanted(t))))
    /\ [][\A t \in Threads : CallbackWaits(t) => CallbackWaits(t)']_vars

\* the callback of a ForEach step waits for the exclusive guard while the
\* other thread waits for a shared hold behind it: no thread can take a step
C18_Witness ==
    \E t, u \in Threads :
        /\ t # u
        /\ CallbackWaits(t) /\ call[t].op = "ForEach" /\ t \in readers[held[t]]
        /\ pc[u] = "rlock" /\ iters[u].internalSet = held[t]
        /\ ~ENABLED NextReenter
=============================================================================
